---- MODULE Spec2Model ----
(***************************************************************************)
(* A model of the countless multi-dispatch engine: the implementation      *)
(* registry keyed by "<operation>_<target>", single-target and             *)
(* multi-target dispatch, and the batched/unbatched bridging of operations *)
(* and targets.                                                            *)
(***************************************************************************)
EXTENDS Integers, Sequences, FiniteSets, TLC

\* Bounds of the model.
MaxRegistered == 3
MaxBatch == 2
MaxTargets == 2
MaxStages == 2

VARIABLES registry, operation_registry, target_registry, call

vars == <<registry, operation_registry, target_registry, call>>

----------------------------------------------------------------------------
\* Names of the concrete kinds and the wildcard sentinel.

ANYTHING == "anything"

OperationNames == {"crop", "noop", "batched_crop"}

TargetNames == {"image", "plain_data", "batched_image"}

----------------------------------------------------------------------------
\* Operation and target values.

NoOp == [name |-> "noop"]

Crop(xy, wh) == [name |-> "crop", xy |-> xy, wh |-> wh]

BatchedCrop(xy, wh) == [name |-> "batched_crop", xy |-> xy, wh |-> wh]

PlainData(data) == [name |-> "plain_data", data |-> data]

Image(image) == [name |-> "image", image |-> image]

BatchedImage(image) == [name |-> "batched_image", image |-> image]

\* Outcomes of a call: a returned value or a raised error.
Ok(v) == [ok |-> TRUE, value |-> v]

Raise(e, o, t) == [ok |-> FALSE, error |-> e, operation |-> o, target |-> t]

----------------------------------------------------------------------------
\* Tensor helpers: a spatial tensor is a sequence of rows of pixels.

Min(a, b) == IF a < b THEN a ELSE b

\* Python slice s[a : b] for 0 <= a <= b (clamped at the end of s).
Slice(s, a, b) == SubSeq(s, Min(a, Len(s)) + 1, Min(b, Len(s)))

Shape(tensor) == <<Len(tensor), IF Len(tensor) = 0 THEN 0 ELSE Len(tensor[1])>>

SameShape(tensors) == \A i, j \in DOMAIN tensors : Shape(tensors[i]) = Shape(tensors[j])

_crop_spatial(tensor, crop) ==
    LET x == crop.xy[1]
        y == crop.xy[2]
        w == crop.wh[1]
        h == crop.wh[2]
        rows == Slice(tensor, y, y + h)
    IN  [r \in DOMAIN rows |-> Slice(rows[r], x, x + w)]

----------------------------------------------------------------------------
\* Batched kinds (class declarations BatchedImage(BatchedTarget[Image]) and
\* BatchedCrop(BatchedOperation[Crop])).

IsBatchedTarget(target) == target.name = "batched_image"

IsBatchedOperation(operation) == operation.name = "batched_crop"

\* Mutant: the elements come out in reverse batch order.
BatchedImage_unbatch_reversed(self) ==
    [i \in DOMAIN self.image |-> Image(self.image[Len(self.image) + 1 - i])]

BatchedImage_unbatch(self) == [i \in DOMAIN self.image |-> Image(self.image[i])]

\* Mutant: the size is counted from zero.
BatchedImage_size_off_by_one(self) == Len(self.image) - 1

BatchedImage_size(self) == Len(self.image)

\* torch.stack raises when the element tensors differ in shape.
BatchedImage_batch(unbatched) ==
    LET tensors == [i \in DOMAIN unbatched |-> unbatched[i].image]
    IN  IF SameShape(tensors)
        THEN Ok(BatchedImage(tensors))
        ELSE Raise("RuntimeError", "", "")

\* Mutant: every element carries the first offset.
BatchedCrop_unbatch_broadcast(self) ==
    [i \in DOMAIN self.xy |-> Crop(self.xy[1], self.wh)]

\* Mutant: the elements come out in reverse batch order.
BatchedCrop_unbatch_reversed(self) ==
    [i \in DOMAIN self.xy |-> Crop(self.xy[Len(self.xy) + 1 - i], self.wh)]

BatchedCrop_unbatch(self) == [i \in DOMAIN self.xy |-> Crop(self.xy[i], self.wh)]

\* Mutant: the length of the coordinate axis instead of the batch axis.
BatchedCrop_size_coords(self) == Len(self.xy[1])

BatchedCrop_size(self) == Len(self.xy)

\* The offsets are stacked; crops of different sizes cannot be batched.
BatchedCrop_batch(unbatched) ==
    IF \A i \in DOMAIN unbatched : unbatched[i].wh = unbatched[1].wh
    THEN Ok(BatchedCrop([i \in DOMAIN unbatched |-> unbatched[i].xy], unbatched[1].wh))
    ELSE Raise("AssertionError", "", "")

\* Batchable contract: cls.batch() of zero elements is rejected, otherwise
\* the concrete kind's _batch combines the elements.
batch(cls, unbatched) ==
    IF Len(unbatched) = 0
    THEN Raise("EmptyBatch", "", "")
    ELSE IF cls = "batched_crop"
    THEN BatchedCrop_batch(unbatched)
    ELSE BatchedImage_batch(unbatched)

----------------------------------------------------------------------------
\* Implementation bodies.  An implementation entity is a record
\* [operation, target, fn]: the two names it declares and its impl body.

\* basic/impls/crop.py crop_image
crop_image(operation, target) ==
    IF operation.name = "crop" /\ target.name = "image"
    THEN Ok(Image(_crop_spatial(target.image, operation)))
    ELSE Raise("AttributeError", operation.name, target.name)

\* batched/impls/crop.py crop_image: one crop per offset of the operation,
\* taken from the target element at the same index.
batched_crop_image(operation, target) ==
    IF operation.name = "batched_crop" /\ target.name = "batched_image"
    THEN IF Len(operation.xy) > Len(target.image)
         THEN Raise("IndexError", operation.name, target.name)
         ELSE LET tensors == [i \in DOMAIN operation.xy |->
                                 _crop_spatial(target.image[i],
                                               Crop(operation.xy[i], operation.wh))]
              IN  IF SameShape(tensors)
                  THEN Ok(BatchedImage(tensors))
                  ELSE Raise("RuntimeError", operation.name, target.name)
    ELSE Raise("AttributeError", operation.name, target.name)

\* basic/impls/noop.py noop_anything, anything_plain_data: return the target.
return_target(operation, target) == Ok(target)

impl(entity, operation, target) ==
    CASE entity.fn = "crop_image" -> crop_image(operation, target)
      [] entity.fn = "batched_crop_image" -> batched_crop_image(operation, target)
      [] OTHER -> return_target(operation, target)

----------------------------------------------------------------------------
\* Name registry of implementations.

\* Mutant: the key is built from the operation name alone.
name_from_operation_only(operation, target) == operation \o "_"

name_from(operation, target) == operation \o "_" \o target

\* Mutant: the key is built with the two names swapped.
name_swapped(entity) == name_from(entity.target, entity.operation)

name(entity) == name_from(entity.operation, entity.target)

KeyError == [error |-> "KeyError"]

\* Mutant: the lookup reads the empty registry of the base metaclass.
get_base_registry(reg, key) == KeyError

get(reg, key) == IF key \in DOMAIN reg THEN reg[key] ELSE KeyError

\* Mutant: a name already registered keeps its first class.
register_kind_setdefault(reg, cls) ==
    IF cls.abstract \/ cls.name \in DOMAIN reg
    THEN reg
    ELSE [k \in DOMAIN reg \cup {cls.name} |-> IF k = cls.name THEN cls ELSE reg[k]]

\* A class with no abstract method left is stored under its name() in the
\* registry of its metaclass, replacing what the name held.
register_kind(reg, cls) ==
    IF cls.abstract
    THEN reg
    ELSE [k \in DOMAIN reg \cup {cls.name} |-> IF k = cls.name THEN cls ELSE reg[k]]

register(reg, entity) ==
    [k \in DOMAIN reg \cup {name(entity)} |->
        IF k = name(entity) THEN entity ELSE reg[k]]

----------------------------------------------------------------------------
\* Single-target dispatch.  A dispatch yields its outcome, the log of the
\* implementation invocations it made (in order) and whether the "falling
\* back to pairwise batching" diagnostic was emitted.

unbatch(self) ==
    IF IsBatchedTarget(self) THEN BatchedImage_unbatch(self) ELSE BatchedCrop_unbatch(self)

size(self) ==
    IF IsBatchedTarget(self) THEN BatchedImage_size(self) ELSE BatchedCrop_size(self)

\* Mutant: the exact key is built with the two names swapped.
impl_name_swapped(operation, target) == name_from(target.name, operation.name)

impl_name(operation, target) == name_from(operation.name, target.name)

\* The keys tried, in order: exact, operation wildcard, target wildcard.
candidates(operation, target) ==
    << impl_name(operation, target),
       name_from(operation.name, ANYTHING),
       name_from(ANYTHING, target.name) >>

\* The first registered implementation among the candidates, or KeyError.
lookup(reg, operation, target) ==
    LET c == candidates(operation, target)
        hits == {i \in DOMAIN c : get(reg, c[i]) # KeyError}
    IN  IF hits = {}
        THEN KeyError
        ELSE get(reg, c[CHOOSE i \in hits : \A j \in hits : i <= j])

invoke(entity, operation, target) ==
    [out |-> impl(entity, operation, target),
     log |-> << [impl |-> entity, operation |-> operation, target |-> target] >>,
     warned |-> FALSE]

RECURSIVE FlattenLogs(_, _)
FlattenLogs(rs, n) == IF n = 0 THEN << >> ELSE FlattenLogs(rs, n - 1) \o rs[n].log

FirstFailure(rs) ==
    IF \A i \in DOMAIN rs : rs[i].out.ok
    THEN 0
    ELSE CHOOSE i \in DOMAIN rs : ~rs[i].out.ok /\ \A j \in 1..(i - 1) : rs[j].out.ok

\* Element-wise results recombined with batch; the first failing element
\* aborts the loop and its error propagates.
rebatch(rs, warned) ==
    LET f == FirstFailure(rs)
    IN  IF f # 0
        THEN [out |-> rs[f].out, log |-> FlattenLogs(rs, f), warned |-> warned]
        ELSE [out |-> batch("batched_image", [i \in DOMAIN rs |-> rs[i].out.value]),
              log |-> FlattenLogs(rs, Len(rs)),
              warned |-> warned]

RECURSIVE apply_single(_, _, _)

\* Base resolution: the three registry tiers, then the bridge of an
\* unbatched operation over the elements of a batched target.
base_apply_single(reg, operation, target) ==
    LET entity == lookup(reg, operation, target)
    IN  IF entity # KeyError
        THEN invoke(entity, operation, target)
        ELSE IF IsBatchedTarget(target) /\ ~IsBatchedOperation(operation)
        THEN LET elements == unbatch(target)
             IN  rebatch([i \in DOMAIN elements |->
                             apply_single(reg, operation, elements[i])], FALSE)
        ELSE [out |-> Raise("NoImplementationFound", operation.name, target.name),
              log |-> << >>,
              warned |-> FALSE]

\* Structural defaults of a batched operation with no implementation.
batched_default(reg, operation, target) ==
    IF IsBatchedTarget(target)
    THEN IF size(operation) # size(target)
         THEN [out |-> Raise("BatchSizeMismatch", operation.name, target.name),
               log |-> << >>,
               warned |-> FALSE]
         ELSE LET ops == unbatch(operation)
                  elements == unbatch(target)
              IN  rebatch([i \in 1..Min(Len(ops), Len(elements)) |->
                              apply_single(reg, ops[i], elements[i])], TRUE)
    ELSE apply_single(reg, unbatch(operation)[1], target)

apply_single(reg, operation, target) ==
    IF ~IsBatchedOperation(operation)
    THEN base_apply_single(reg, operation, target)
    ELSE LET r == base_apply_single(reg, operation, target)
         IN  IF ~r.out.ok /\ r.out.error = "NoImplementationFound"
             THEN batched_default(reg, operation, target)
             ELSE r

----------------------------------------------------------------------------
\* Sequential composition: an operation holding a list of operations, whose
\* own apply_single threads the target through them in listed order.

Sequential(operations) == [name |-> "sequential", operations |-> operations]

\* The target after the first n stages; a failing stage ends the chain.
RECURSIVE thread(_, _, _, _)
thread(reg, operations, n, target) ==
    IF n = 0
    THEN [out |-> Ok(target), log |-> << >>, warned |-> FALSE]
    ELSE LET prev == thread(reg, operations, n - 1, target)
         IN  IF ~prev.out.ok
             THEN prev
             ELSE LET r == apply_single(reg, operations[n], prev.out.value)
                  IN  [out |-> r.out,
                       log |-> prev.log \o r.log,
                       warned |-> prev.warned \/ r.warned]

\* Mutant: the stages run from the last listed operation to the first.
Sequential_apply_single_reversed(reg, operation, target) ==
    LET ops == operation.operations
    IN  thread(reg, [i \in DOMAIN ops |-> ops[Len(ops) + 1 - i]], Len(ops), target)

Sequential_apply_single(reg, operation, target) ==
    thread(reg, operation.operations, Len(operation.operations), target)

----------------------------------------------------------------------------
\* Multi-target dispatch.  The labeled targets are the keyword arguments of
\* the call, a sequence of [name, target] items with distinct names.

\* Mutant: each value replaces the group of its type instead of joining it.
TypedMap_overwrite(data) ==
    [data |-> data,
     by_type |-> [ty \in {data[k].name : k \in DOMAIN data} |->
                     LET last == CHOOSE j \in DOMAIN data : data[j].name = ty
                     IN  [k \in {last} |-> data[k]]]]

TypedMap(data) ==
    [data |-> data,
     by_type |-> [ty \in {data[k].name : k \in DOMAIN data} |->
                     [k \in {j \in DOMAIN data : data[j].name = ty} |-> data[k]]]]

by_type(self, cls) ==
    IF cls \in DOMAIN self.by_type THEN self.by_type[cls] ELSE << >>

getitem(self, key) == self.data[key]

\* The dict comprehension over the first n items: each item is dispatched in
\* turn, and the first exception ends the comprehension.
RECURSIVE comprehension(_, _, _, _)
comprehension(reg, operation, items, n) ==
    IF n = 0
    THEN [out |-> Ok(<< >>), log |-> << >>]
    ELSE LET prev == comprehension(reg, operation, items, n - 1)
         IN  IF ~prev.out.ok
             THEN prev
             ELSE LET r == apply_single(reg, operation, items[n].target)
                      d == prev.out.value
                  IN  [out |-> IF r.out.ok
                               THEN Ok([k \in DOMAIN d \cup {items[n].name} |->
                                           IF k = items[n].name
                                           THEN r.out.value ELSE d[k]])
                               ELSE r.out,
                       log |-> prev.log \o r.log]

\* Mutant: every label is given the dispatch on the first target.
apply_shared_target(reg, operation, targets) ==
    LET items == [i \in DOMAIN targets |->
                     [name |-> targets[i].name, target |-> targets[1].target]]
        c == comprehension(reg, operation, items, Len(items))
    IN  IF c.out.ok
        THEN [out |-> Ok(TypedMap(c.out.value)), log |-> c.log]
        ELSE c

\* Mutant: a failing target is skipped and the rest is returned.
apply_skip_failures(reg, operation, targets) ==
    LET items == SelectSeq(targets,
                     LAMBDA it : apply_single(reg, operation, it.target).out.ok)
        c == comprehension(reg, operation, items, Len(items))
    IN  [out |-> Ok(TypedMap(c.out.value)), log |-> c.log]

apply(reg, operation, targets) ==
    LET c == comprehension(reg, operation, targets, Len(targets))
    IN  IF c.out.ok
        THEN [out |-> Ok(TypedMap(c.out.value)), log |-> c.log]
        ELSE c

----------------------------------------------------------------------------
\* Inputs of the model.

TensorA == << <<1, 2>>, <<3, 4>> >>

TensorB == << <<5, 6>>, <<7, 8>> >>

Tensors == {TensorA, TensorB}

XYs == { <<0, 1>>, <<1, 0>> }

WH == <<1, 1>>

SeqsUpTo(S, n) == UNION { [1..k -> S] : k \in 1..n }

Operations ==
    {NoOp} \cup {Crop(xy, WH) : xy \in XYs}
           \cup {BatchedCrop(xys, WH) : xys \in SeqsUpTo(XYs, MaxBatch)}

Targets ==
    {PlainData(TensorA)} \cup {Image(x) : x \in Tensors}
                         \cup {BatchedImage(xs) : xs \in SeqsUpTo(Tensors, MaxBatch)}

\* Implementations defined by the library itself.
LibraryImpls ==
    { [operation |-> "crop", target |-> "image", fn |-> "crop_image"],
      [operation |-> "batched_crop", target |-> "batched_image", fn |-> "batched_crop_image"],
      [operation |-> "noop", target |-> ANYTHING, fn |-> "return_target"],
      [operation |-> ANYTHING, target |-> "plain_data", fn |-> "return_target"] }

\* Implementations a user may define for a pair of names, either of which
\* may be the wildcard.
UserImpls ==
    { [operation |-> o, target |-> t, fn |-> "return_target"] :
        o \in {"crop", "batched_crop", ANYTHING},
        t \in {"image", "batched_image", ANYTHING} }
    \ { [operation |-> ANYTHING, target |-> ANYTHING, fn |-> "return_target"] }

Impls == LibraryImpls \cup UserImpls

\* Inputs of the batching calls: images of two shapes, crops of two sizes,
\* and sequences of them from the empty one to one element more than the
\* batches dispatched on.
TensorC == << <<9>> >>

WHs == { <<1, 1>>, <<2, 2>> }

BatchInputs ==
    LET images == {Image(x) : x \in Tensors \cup {TensorC}}
        crops == {Crop(xy, wh) : xy \in XYs, wh \in WHs}
    IN  [cls : {"batched_image"},
         elements : {<< >>} \cup SeqsUpTo(images, MaxBatch + 1)]
        \cup
        [cls : {"batched_crop"},
         elements : {<< >>} \cup SeqsUpTo(crops, MaxBatch + 1)]

\* Inputs of the sequential calls: two crops that do not commute on a 3x3
\* image, and the no-op.
Tensor3 == << <<1, 2, 3>>, <<4, 5, 6>>, <<7, 8, 9>> >>

StageOperations == {NoOp, Crop(<<0, 1>>, <<2, 2>>), Crop(<<1, 0>>, <<2, 2>>)}

SequentialOperations ==
    {Sequential(ops) : ops \in {<< >>} \cup SeqsUpTo(StageOperations, MaxStages)}

SequentialTargets == {Image(Tensor3), PlainData(TensorA), BatchedImage(<<Tensor3, Tensor3>>)}

\* Inputs of the class definitions: operation and target classes, two
\* modules defining a class of the same name, a target named as an operation,
\* and the abstract base classes.
OperationClasses ==
    [name : {"crop", "MyCrop"}, module : {"core_usage", "core_usage_decorators"},
     abstract : {FALSE}]
    \cup {[name |-> "crop", module |-> "core", abstract |-> TRUE]}

TargetClasses ==
    [name : {"crop", "MyImage"}, module : {"core_usage", "core_usage_decorators"},
     abstract : {FALSE}]
    \cup {[name |-> "MyImage", module |-> "core", abstract |-> TRUE]}

ImplementationClasses ==
    LibraryImpls \cup {[operation |-> "crop", target |-> "image", fn |-> "return_target"]}

\* Inputs of the calls on names containing "_": the library's crop and no-op
\* and a user operation named "crop_exact", on the library's spatial_map and
\* exact_spatial_map targets, with user implementations for the pairs.
SpatialMap(data) == [name |-> "spatial_map", data |-> data]

ExactSpatialMap(data) == [name |-> "exact_spatial_map", data |-> data]

UnderscoreOperations == {NoOp, Crop(<<0, 1>>, WH), [name |-> "crop_exact"]}

UnderscoreTargets == {SpatialMap(TensorA), ExactSpatialMap(TensorA)}

UnderscoreImpls ==
    { [operation |-> o, target |-> t, fn |-> "return_target"] :
        o \in {"noop", "crop", "crop_exact"},
        t \in {"spatial_map", "exact_spatial_map"} }

\* Inputs of the multi-target calls.
LabelList == <<"image", "points", "curse", "pinolo">>

Labels == {LabelList[i] : i \in 1..Min(MaxTargets, Len(LabelList))}

ApplyOperations ==
    {NoOp, Crop(<<0, 1>>, WH), BatchedCrop(<< <<0, 1>>, <<1, 0>> >>, WH)}

ApplyTargets == {Image(TensorA), BatchedImage(<<TensorA, TensorB>>)}

LabeledTargets ==
    {ts \in UNION { [1..k -> [name : Labels, target : ApplyTargets]] : k \in 0..MaxTargets } :
        \A i, j \in DOMAIN ts : i # j => ts[i].name # ts[j].name}

----------------------------------------------------------------------------
\* State machine.

NoCall == [kind |-> "none"]

Init ==
    /\ registry = << >>
    /\ operation_registry = << >>
    /\ target_registry = << >>
    /\ call = NoCall

\* Defining an Implementation class registers it under its name.
Register(entity) ==
    /\ call = NoCall
    /\ \/ name(entity) \in DOMAIN registry
       \/ Cardinality(DOMAIN registry) < MaxRegistered
    /\ registry' = register(registry, entity)
    /\ UNCHANGED <<operation_registry, target_registry, call>>

\* operation.apply_single(target): the call runs to completion and its
\* result is held until the caller takes it.
ApplySingle(operation, target) ==
    /\ call = NoCall
    /\ call' = [kind |-> "apply_single", operation |-> operation, target |-> target,
                result |-> apply_single(registry, operation, target)]
    /\ UNCHANGED <<registry, operation_registry, target_registry>>

\* operation.apply(**targets)
Apply(operation, targets) ==
    /\ call = NoCall
    /\ call' = [kind |-> "apply", operation |-> operation, targets |-> targets,
                result |-> apply(registry, operation, targets)]
    /\ UNCHANGED <<registry, operation_registry, target_registry>>

\* The caller takes the result (or handles the exception).
Return ==
    /\ call # NoCall
    /\ call' = NoCall
    /\ UNCHANGED <<registry, operation_registry, target_registry>>

Next ==
    \/ \E entity \in Impls : Register(entity)
    \/ \E operation \in Operations, target \in Targets : ApplySingle(operation, target)
    \/ \E operation \in ApplyOperations, targets \in LabeledTargets : Apply(operation, targets)
    \/ Return

Spec == Init /\ [][Next]_vars

\* Sequential(...).apply_single(target)
ApplySequential(operation, target) ==
    /\ call = NoCall
    /\ call' = [kind |-> "sequential", operation |-> operation, target |-> target,
                result |-> Sequential_apply_single(registry, operation, target)]
    /\ UNCHANGED <<registry, operation_registry, target_registry>>

NextSequential ==
    \/ \E entity \in Impls : Register(entity)
    \/ \E operation \in SequentialOperations, target \in SequentialTargets :
          ApplySequential(operation, target)
    \/ Return

SpecSequential == Init /\ [][NextSequential]_vars

\* A class statement: the metaclass of the class registers it.
DefineOperation(cls) ==
    /\ call = NoCall
    /\ operation_registry' = register_kind(operation_registry, cls)
    /\ call' = [kind |-> "define", registry |-> "operation", entity |-> cls]
    /\ UNCHANGED <<registry, target_registry>>

DefineTarget(cls) ==
    /\ call = NoCall
    /\ target_registry' = register_kind(target_registry, cls)
    /\ call' = [kind |-> "define", registry |-> "target", entity |-> cls]
    /\ UNCHANGED <<registry, operation_registry>>

DefineImplementation(entity) ==
    /\ call = NoCall
    /\ \/ name(entity) \in DOMAIN registry
       \/ Cardinality(DOMAIN registry) < MaxRegistered
    /\ registry' = register(registry, entity)
    /\ call' = [kind |-> "define", registry |-> "implementation", entity |-> entity]
    /\ UNCHANGED <<operation_registry, target_registry>>

NextRegistry ==
    \/ \E cls \in OperationClasses : DefineOperation(cls)
    \/ \E cls \in TargetClasses : DefineTarget(cls)
    \/ \E entity \in ImplementationClasses : DefineImplementation(entity)
    \/ Return

SpecRegistry == Init /\ [][NextRegistry]_vars

NextUnderscore ==
    \/ \E entity \in UnderscoreImpls : Register(entity)
    \/ \E operation \in UnderscoreOperations, target \in UnderscoreTargets :
          ApplySingle(operation, target)
    \/ Return

SpecUnderscore == Init /\ [][NextUnderscore]_vars

\* cls.batch(*elements)
Batch(cls, elements) ==
    /\ call = NoCall
    /\ call' = [kind |-> "batch", cls |-> cls, elements |-> elements,
                result |-> batch(cls, elements)]
    /\ UNCHANGED <<registry, operation_registry, target_registry>>

\* The batched value just built is split again: batched.unbatch() and
\* batched.size().
Unbatch ==
    /\ call.kind = "batch"
    /\ call.result.ok
    /\ call' = [kind |-> "unbatch", cls |-> call.cls, elements |-> call.elements,
                batched |-> call.result.value,
                result |-> unbatch(call.result.value),
                size |-> size(call.result.value)]
    /\ UNCHANGED <<registry, operation_registry, target_registry>>

NextBatch ==
    \/ \E b \in BatchInputs : Batch(b.cls, b.elements)
    \/ Unbatch
    \/ Return

SpecBatch == Init /\ [][NextBatch]_vars

----------------------------------------------------------------------------
\* Vocabulary of the properties.

IsSingleCall == call.kind = "apply_single"

\* The registered implementations declared for the pair of names (o, t).
Registered(o, t) ==
    {registry[k] : k \in {j \in DOMAIN registry :
                            registry[j].operation = o /\ registry[j].target = t}}

ExactTier == Registered(call.operation.name, call.target.name)

OperationWildcardTier == Registered(call.operation.name, "anything")

TargetWildcardTier == Registered("anything", call.target.name)

\* The earliest non-empty tier of the call in flight.
FirstTier ==
    IF ExactTier # {} THEN ExactTier
    ELSE IF OperationWildcardTier # {} THEN OperationWildcardTier
    ELSE TargetWildcardTier

\* The call invoked exactly the implementation e, once, on its own arguments,
\* and returned what e returned.
InvokedOnly(e) ==
    /\ call.result.log =
          << [impl |-> e, operation |-> call.operation, target |-> call.target] >>
    /\ call.result.out = impl(e, call.operation, call.target)

NoTierRegistered ==
    ExactTier = {} /\ OperationWildcardTier = {} /\ TargetWildcardTier = {}

----------------------------------------------------------------------------
----------------------------------------------------------------------------
\* Element-wise dispatches the structural bridges are compared with.

BatchedOp == IsSingleCall /\ IsBatchedOperation(call.operation)

BatchedTgt == IsSingleCall /\ IsBatchedTarget(call.target)

\* Dispatch of the unbatched operation of the call on the i-th stacked image.
OnElement(i) ==
    apply_single(registry, call.operation, Image(call.target.image[i]))

\* Dispatch of the i-th stacked crop on the i-th stacked image.
Pairwise(i) ==
    apply_single(registry, Crop(call.operation.xy[i], call.operation.wh),
                 Image(call.target.image[i]))

\* The call returned a batch of n images, the i-th being what r(i) returned,
\* or failed as the first failing r(i) did.
RebatchOf(r(_), n) ==
    IF \A i \in 1..n : r(i).out.ok
    THEN /\ call.result.out.ok
         /\ call.result.out.value.name = "batched_image"
         /\ Len(call.result.out.value.image) = n
         /\ \A i \in 1..n : Image(call.result.out.value.image[i]) = r(i).out.value
    ELSE \E i \in 1..n :
            /\ ~r(i).out.ok
            /\ \A j \in 1..(i - 1) : r(j).out.ok
            /\ call.result.out = r(i).out

----------------------------------------------------------------------------
\* Multi-target calls.

IsMultiCall == call.kind = "apply"

\* The single dispatch of the operation of the call on its i-th target.
Single(i) == apply_single(registry, call.operation, call.targets[i].target)

\* C9: when every single dispatch succeeds, apply returns a map whose keys are
\* exactly the labels of the call and whose value at each label is the single
\* dispatch of the operation on the target of that label.
C9_ApplyCollects ==
    IsMultiCall /\ (\A i \in DOMAIN call.targets : Single(i).out.ok)
    => /\ call.result.out.ok
       /\ DOMAIN call.result.out.value.data =
             {call.targets[i].name : i \in DOMAIN call.targets}
       /\ \A i \in DOMAIN call.targets :
             call.result.out.value.data[call.targets[i].name] = Single(i).out.value

C9_Witness ==
    /\ IsMultiCall
    /\ Len(call.targets) = 2
    /\ call.targets[1].target.name # call.targets[2].target.name
    /\ call.result.out.ok
    /\ \E i \in 1..2 :
          call.result.out.value.data[call.targets[i].name] # call.targets[i].target

\* C10: when a single dispatch fails for some labeled target, apply fails with
\* the failure of the first such target and returns no map.
C10_ApplyAllOrNothing ==
    IsMultiCall /\ (\E i \in DOMAIN call.targets : ~Single(i).out.ok)
    => /\ ~call.result.out.ok
       /\ \E i \in DOMAIN call.targets :
             /\ ~Single(i).out.ok
             /\ \A j \in 1..(i - 1) : Single(j).out.ok
             /\ call.result.out = Single(i).out

C10_Witness ==
    /\ IsMultiCall
    /\ Len(call.targets) = 2
    /\ Single(1).out.ok
    /\ ~Single(2).out.ok
    /\ call.result.out = Single(2).out
    /\ call.result.log # << >>

----------------------------------------------------------------------------
\* Typed result maps.

\* The map returned by the multi-target call in flight.
ResultMap == call.result.out.value

Kinds == TargetNames \cup {"my_points"}

\* C11: for the map returned by a multi-target call and every kind K,
\* by_type(K) holds exactly the entries of the map whose value is of kind K,
\* each with the value the map holds at that key; with no such entry it is
\* the empty mapping.
C11_ByType ==
    IsMultiCall /\ call.result.out.ok
    => \A K \in Kinds :
          LET m == by_type(ResultMap, K)
          IN  /\ DOMAIN m = {k \in DOMAIN ResultMap.data : ResultMap.data[k].name = K}
              /\ \A k \in DOMAIN m : m[k] = getitem(ResultMap, k)

C11_Witness ==
    /\ IsMultiCall /\ call.result.out.ok
    /\ Len(call.targets) = 2
    /\ DOMAIN by_type(ResultMap, "image") = {"image", "points"}
    /\ by_type(ResultMap, "image")["points"] = Image(<< <<3>> >>)
    /\ by_type(ResultMap, "plain_data") = << >>

----------------------------------------------------------------------------
\* Batching.

IsBatchCall == call.kind = "batch"

IsUnbatchCall == call.kind = "unbatch"

\* Elements that batch accepts: images of one shape, crops of one size.
Stackable(cls, elements) ==
    IF cls = "batched_crop"
    THEN \A i, j \in DOMAIN elements : elements[i].wh = elements[j].wh
    ELSE \A i, j \in DOMAIN elements :
            /\ Len(elements[i].image) = Len(elements[j].image)
            /\ Len(elements[i].image[1]) = Len(elements[j].image[1])

\* C12 as stated: every non-empty sequence of elements is batched, and the
\* batch has the size of the sequence and unbatches to the sequence.
C12_RoundTrip_Original ==
    IsBatchCall /\ Len(call.elements) >= 1
    => /\ call.result.ok
       /\ unbatch(call.result.value) = call.elements
       /\ size(call.result.value) = Len(call.elements)

\* C12 amended: the same for every non-empty sequence of images of one shape
\* or of crops of one size.
C12_RoundTrip ==
    /\ IsBatchCall /\ Len(call.elements) >= 1 /\ Stackable(call.cls, call.elements)
       => call.result.ok
    /\ IsUnbatchCall
       => /\ call.result = call.elements
          /\ call.size = Len(call.elements)

C12_Witness ==
    /\ IsUnbatchCall
    /\ call.cls = "batched_image"
    /\ call.elements = <<Image(TensorA), Image(TensorB), Image(TensorA)>>
    /\ call.batched = BatchedImage(<<TensorA, TensorB, TensorA>>)
    /\ call.result = call.elements
    /\ call.size = 3

\* C13: batch of zero elements fails with EmptyBatch, and every batched value
\* batch returns has size at least 1.
C13_EmptyBatch ==
    /\ IsBatchCall /\ Len(call.elements) = 0
       => ~call.result.ok /\ call.result.error = "EmptyBatch"
    /\ IsBatchCall /\ call.result.ok => size(call.result.value) >= 1
    /\ IsUnbatchCall => call.size >= 1

C13_Witness ==
    /\ IsBatchCall
    /\ call.cls = "batched_crop"
    /\ call.elements = << >>
    /\ call.result = Raise("EmptyBatch", "", "")

----------------------------------------------------------------------------
\* Sequential composition.

IsSequentialCall == call.kind = "sequential"

\* op_n.apply_single(... op_1.apply_single(t) ...) written from the first
\* operation inwards: dispatch the head on t, then the rest on its result.
RECURSIVE Nested(_, _)
Nested(ops, t) ==
    IF ops = << >>
    THEN [out |-> Ok(t), log |-> << >>]
    ELSE LET first == apply_single(registry, Head(ops), t)
         IN  IF ~first.out.ok
             THEN [out |-> first.out, log |-> first.log]
             ELSE LET rest == Nested(Tail(ops), first.out.value)
                  IN  [out |-> rest.out, log |-> first.log \o rest.log]

\* C14: a Sequential of N operations applied to a target returns what the
\* nested single dispatches return, invoking the same implementations in
\* listed order; with N = 0 it returns the target; no implementation is
\* looked up for the Sequential itself.
C14_Sequential ==
    IsSequentialCall
    => /\ call.result.out = Nested(call.operation.operations, call.target).out
       /\ call.result.log = Nested(call.operation.operations, call.target).log
       /\ call.operation.operations = << >> => call.result.out = Ok(call.target)
       /\ \A i \in DOMAIN call.result.log :
             call.result.log[i].operation.name # "sequential"

C14_Witness ==
    /\ IsSequentialCall
    /\ call.operation =
          Sequential(<<Crop(<<0, 1>>, <<2, 2>>), Crop(<<1, 0>>, <<2, 2>>)>>)
    /\ call.target = Image(Tensor3)
    /\ call.result.out = Ok(Image(<< <<5>>, <<8>> >>))
    /\ Len(call.result.log) = 2

----------------------------------------------------------------------------
\* Name registries.

\* The registry a class definition wrote to, after and before the step.
Written(which) ==
    CASE which = "operation" -> operation_registry'
      [] which = "target" -> target_registry'
      [] OTHER -> registry'

WrittenBefore(which) ==
    CASE which = "operation" -> operation_registry
      [] which = "target" -> target_registry
      [] OTHER -> registry

NameOf(which, entity) ==
    IF which = "implementation"
    THEN entity.operation \o "_" \o entity.target
    ELSE entity.name

\* What a definition step must do: the registry written gives the class just
\* defined at its name, every other name keeps its class, and the two other
\* registries are as before.
RegistersIn(which, entity) ==
    LET n == NameOf(which, entity)
    IN  /\ n \in DOMAIN Written(which)
        /\ Written(which)[n] = entity
        /\ DOMAIN Written(which) = DOMAIN WrittenBefore(which) \cup {n}
        /\ \A k \in DOMAIN WrittenBefore(which) \ {n} :
              Written(which)[k] = WrittenBefore(which)[k]
        /\ which # "operation" => operation_registry' = operation_registry
        /\ which # "target" => target_registry' = target_registry
        /\ which # "implementation" => registry' = registry

IsConcrete(which, entity) == which = "implementation" \/ ~entity.abstract

\* C15: each registration of a concrete class makes the lookup of its name in
\* its registry return that class, replacing what the name held before,
\* changes no other name and leaves the two other registries unchanged.
C15_NameRegistry ==
    [][call'.kind = "define" /\ IsConcrete(call'.registry, call'.entity)
          => RegistersIn(call'.registry, call'.entity)]_vars

\* A target class named "crop" has just replaced another one of that name,
\* while the operation registry holds its own class under "crop".
C15_Witness ==
    /\ call.kind = "define" /\ call.registry = "target"
    /\ call.entity = [name |-> "crop", module |-> "core_usage_decorators", abstract |-> FALSE]
    /\ get(target_registry, "crop") = call.entity
    /\ get(operation_registry, "crop") =
          [name |-> "crop", module |-> "core_usage", abstract |-> FALSE]
    /\ "crop_image" \in DOMAIN registry

----------------------------------------------------------------------------
\* Implementation keys.

\* C16: an implementation declared for a pair of concrete names is invoked
\* only for an operation and a target of exactly these two names.
C16_NoAliasing ==
    IsSingleCall
    => \A i \in DOMAIN call.result.log :
          LET e == call.result.log[i].impl
          IN  e.operation # "anything" /\ e.target # "anything"
              => /\ e.operation = call.result.log[i].operation.name
                 /\ e.target = call.result.log[i].target.name

====
